---- MODULE Spec2Model ----
(***************************************************************************)
(* A model of the adk-chatkit adapter: the event translator                *)
(* (stream_agent_response) and the request processor                       *)
(* (ADKRequestProcessor).                                                  *)
(*                                                                         *)
(* SpecTranslate : one call of stream_agent_response over an upstream      *)
(*                 agent-event generator.                                  *)
(* SpecProcess   : a sequence of streaming requests handled by             *)
(*                 ADKRequestProcessor over one session service.           *)
(***************************************************************************)
EXTENDS Integers, Sequences, FiniteSets, TLC

(***************************************************************************)
(* Bounds                                                                  *)
(***************************************************************************)
\* Agent events read in one call of stream_agent_response.
MaxEvents == 3

\* Content parts carried by the agent events of one call, all together.
MaxParts == 3

MaxRespond == 2

MaxRequests == 3

\* Calls made on the store and the session service under it.
MaxStoreOps == 4

(***************************************************************************)
(* Value domains                                                           *)
(***************************************************************************)
\* Non-empty part texts.  The empty string stands for a part whose text is
\* falsy (None or ""), e.g. a function-call part.
Texts == {"A", "B"}

NoText == ""

\* Values uuid.uuid4() may return for response_id.
ItemIds == {"id1", "id2"}

\* Values default_generate_id("thread") may return; a new thread draws one
\* that no session uses yet.
ThreadIds == {"thr_1", "thr_2", "thr_3"}

\* Values default_generate_id("message") may return.
MessageIds == {"msg_1"}

Users == {"u1", "u2"}

AppName == "app"

UserTexts == {"hi"}

None == "None"

VARIABLES
    \* ---- stream_agent_response ----
    adk_response,   \* the generator handle: None or "gen"
    thread,         \* id of the thread the response belongs to
    input,          \* the agent events the generator has yielded so far
    response_id,    \* the item id generated for the call
    out,            \* the stream events yielded so far
    tpc,            \* "init", "loop", "done", "failed"
    \* ---- ADKRequestProcessor ----
    sessions,       \* the session service: set of <<app, user, session id>>
    request,        \* the parsed streaming request being processed, or None
    thread_metadata,\* id of the thread created or loaded for the request
    adk_context,    \* the user the request runs as
    ppc,            \* position of _process_streaming_impl
    yielded,        \* event yielded by _process_streaming_impl, not yet framed
    produced,       \* events yielded by _process_streaming_impl so far
    frames,         \* byte frames yielded by _process_streaming so far
    respond_calls,  \* times self.respond was called for the request
    respond_events, \* events the respond stream has produced for the request
    error,          \* exception raised to the consumer of the stream
    sessions0,      \* the session service as it was when the request arrived
    nreq,           \* requests processed so far
    body,           \* the raw request handed to process
    result,         \* what process returned: StreamingResult / NonStreamingResult
    session_ops,    \* session-service calls made for the request
    \* ---- ADKStore over the session service ----
    store_sessions, \* <<app, user, id>> -> [state, events] of each session
    store_op,       \* the last store call: its kind and arguments
    store_before,   \* store_sessions as the last store call found it
    store_result,   \* what the last store call returned or raised
    nstore,         \* calls made on the store and the session service
    store_saved,    \* <<app, user, id>> -> the thread last given to save_thread
    \* ---- ADKAgentContext: the bridge of each turn ----
    turn_pc,        \* turn -> "idle", "running", "done"
    turn_in,        \* turn -> the agent events the runner has yielded
    turn_out,       \* turn -> the stream events the turn has emitted
    _events,        \* queue -> the events waiting on it, front first
    streamed,       \* turn -> the events stream() was called with, in order
    blocked,        \* turn -> a stream() call is waiting for room
    client_tool_call, \* turn -> the context's client_tool_call
    tool_op,        \* the last call a tool made on a context
    ntool,          \* calls tools have made on the contexts
    \* ---- RunnerManager ----
    _runners,       \* the registry: app names that have a runner
    cleanup_tasks,  \* app name -> state of the task running runner.close()
    mpc,            \* "open", "waiting" (in asyncio.wait), "closed"
    got,            \* what the last get_runner returned or raised
    \* ---- MetroMapChatKitServer on one thread ----
    metro_events,   \* the event log of the metro thread's session
    metro_title,    \* the title of the metro thread, or None
    metro_op,       \* the last metro request and what it found
    metro_message,  \* the message the last _adk_respond sent to the runner
    nmetro,         \* requests the metro server has handled
    \* ---- RefreshedSessionService on one session ----
    db_session,     \* the stored session: [last_update_time, events]
    caller_session, \* caller -> the Session object the caller holds
    fpc,            \* caller -> "idle", or "refreshed" (before super().append_event)
    append_op,      \* the last underlying append and what it found
    nappend,        \* append_event calls begun so far
    \* ---- CatState and its naming ----
    cat,            \* the CatState kept in the session state
    cat_op,         \* the last operation on the cat and the state it found
    \* ---- ADKStore.save_thread, call by call ----
    save_sessions,  \* the sessions of the session service under concurrent saves
    save_pc,        \* where each save_thread call stands
    save_arg,       \* the thread, the context and the get_session result of each call
    create_calls,   \* create_session invocations per session key
    save_op,        \* the last session-service call of a save_thread
    nsave,          \* save_thread calls begun so far
    \* ---- ADKChatKitServer.respond ----
    resp_pc,        \* where respond stands in the turn
    resp_in,        \* the events _adk_respond produces in the turn
    resp_raises,    \* whether _adk_respond raises after them
    resp_out,       \* the events the consumer has received from respond
    update_calls,   \* issue_system_event_updates calls made in the turn
    nrespond        \* turns begun so far

tvars == <<adk_response, thread, input, response_id, out, tpc>>

pvars == <<sessions, request, thread_metadata, adk_context, ppc, yielded, produced, frames,
           respond_calls, respond_events, error, sessions0, nreq,
           body, result, session_ops>>

svars == <<store_sessions, store_op, store_before, store_result, nstore,
           store_saved>>

bvars == <<turn_pc, turn_in, turn_out, _events, streamed, blocked,
           client_tool_call, tool_op, ntool>>

rvars == <<_runners, cleanup_tasks, mpc, got>>

mvars == <<metro_events, metro_title, metro_op, metro_message, nmetro>>

fvars == <<db_session, caller_session, fpc, append_op, nappend>>

cvars == <<cat, cat_op>>

kvars == <<save_sessions, save_pc, save_arg, create_calls, save_op, nsave>>

wvars == <<resp_pc, resp_in, resp_raises, resp_out, update_calls, nrespond>>

\* The variables each component leaves alone.
NotT == <<pvars, svars, bvars, rvars, mvars, fvars, cvars, kvars, wvars>>

NotP == <<tvars, svars, bvars, rvars, mvars, fvars, cvars, kvars, wvars>>

NotS == <<tvars, pvars, bvars, rvars, mvars, fvars, cvars, kvars, wvars>>

NotB == <<tvars, pvars, svars, rvars, mvars, fvars, cvars, kvars, wvars>>

NotR == <<tvars, pvars, svars, bvars, mvars, fvars, cvars, kvars, wvars>>

NotM == <<tvars, pvars, svars, bvars, rvars, fvars, cvars, kvars, wvars>>

NotF == <<tvars, pvars, svars, bvars, rvars, mvars, cvars, kvars, wvars>>

NotC == <<tvars, pvars, svars, bvars, rvars, mvars, fvars, kvars, wvars>>

NotK == <<tvars, pvars, svars, bvars, rvars, mvars, cvars, fvars, wvars>>

NotW == <<tvars, pvars, svars, bvars, rvars, mvars, cvars, fvars, kvars>>

vars == <<adk_response, thread, input, response_id, out, tpc,
          sessions, request, thread_metadata, adk_context, ppc, yielded, produced, frames,
          respond_calls, respond_events, error, sessions0, nreq,
          body, result, session_ops,
          store_sessions, store_op, store_before, store_result, nstore,
          store_saved,
          turn_pc, turn_in, turn_out, _events, streamed, blocked,
          client_tool_call, tool_op, ntool,
          _runners, cleanup_tasks, mpc, got,
          metro_events, metro_title, metro_op, metro_message, nmetro,
          db_session, caller_session, fpc, append_op, nappend,
          cat, cat_op,
          save_sessions, save_pc, save_arg, create_calls, save_op, nsave,
          resp_pc, resp_in, resp_raises, resp_out, update_calls, nrespond>>

(***************************************************************************)
(* Generic helpers                                                         *)
(***************************************************************************)
SeqsUpTo(S, n) == UNION {[1..k -> S] : k \in 0..n}

Count(s, P(_)) == Cardinality({i \in 1..Len(s) : P(s[i])})

RECURSIVE Flatten(_)
Flatten(ss) == IF ss = <<>> THEN <<>> ELSE Head(ss) \o Flatten(Tail(ss))

(***************************************************************************)
(* Agent events (google.adk.events.Event as stream_agent_response reads    *)
(* it): content is None or has a list of parts; partial is a flag.         *)
(***************************************************************************)
Parts(n) == SeqsUpTo([text : Texts \cup {NoText}], n)

\* The events that carry at most n parts.
AgentEvents(n) ==
    {[has_content |-> FALSE, parts |-> <<>>, partial |-> FALSE]}
    \cup [has_content : {TRUE}, parts : Parts(n), partial : BOOLEAN]

\* Number of parts the events read so far carry.
PartsRead(in) == Len(Flatten([i \in 1..Len(in) |-> in[i].parts]))

(***************************************************************************)
(* Stream events (chatkit.types)                                           *)
(***************************************************************************)
AssistantMessageItem(id, content, thread_id) ==
    [type |-> "assistant_message", id |-> id, content |-> content,
     thread_id |-> thread_id]

ThreadItemAddedEvent(item) == [type |-> "thread.item.added", item |-> item]

ThreadItemDoneEvent(item) == [type |-> "thread.item.done", item |-> item]

ThreadItemUpdated(item_id, update) ==
    [type |-> "thread.item.updated", item_id |-> item_id, update |-> update]

AssistantMessageContentPartAdded(content_index, text) ==
    [type |-> "assistant_message.content_part.added",
     content_index |-> content_index, text |-> text]

AssistantMessageContentPartTextDelta(delta, content_index) ==
    [type |-> "assistant_message.content_part.text_delta",
     content_index |-> content_index, text |-> delta]

AssistantMessageContentPartDone(text, content_index) ==
    [type |-> "assistant_message.content_part.done",
     content_index |-> content_index, text |-> text]

(***************************************************************************)
(* stream_agent_response                                                   *)
(***************************************************************************)
\* The parts of an event whose text is truthy (`if p.text`).
TextParts(event) == SelectSeq(event.parts, LAMBDA p : p.text # NoText)

\* The update built for one text-bearing part (lines 55-65).
PartUpdate_Swapped(event, p, content_index) ==
    IF ~event.partial
    THEN AssistantMessageContentPartTextDelta(p.text, content_index)
    ELSE AssistantMessageContentPartDone(p.text, content_index)

PartUpdate(event, p, content_index) ==
    IF event.partial
    THEN AssistantMessageContentPartTextDelta(p.text, content_index)
    ELSE AssistantMessageContentPartDone(p.text, content_index)

\* The value of text_from_final_update when the loop over the parts of
\* one event ends: reset to "" for every event, set by non-partial parts.
text_from_final_update(event) ==
    LET tp == TextParts(event)
    IN  IF event.partial \/ tp = <<>> THEN "" ELSE tp[Len(tp)].text

\* The events yielded by one iteration of the `async for` body.
Translate(id, thread_id, event) ==
    LET content_index == 0
        tp == TextParts(event)
    IN  IF ~event.has_content
        THEN << ThreadItemAddedEvent(AssistantMessageItem(id, <<>>, thread_id)),
                ThreadItemUpdated(id,
                    AssistantMessageContentPartAdded(content_index, "")) >>
        ELSE IF event.parts # <<>>
        THEN [i \in 1..Len(tp) |->
                 ThreadItemUpdated(id, PartUpdate(event, tp[i], content_index))]
             \o << ThreadItemDoneEvent(AssistantMessageItem(id,
                       <<text_from_final_update(event)>>, thread_id)) >>
        ELSE <<>>

\* Lines 24-29: return at once on an absent generator, else draw the id.
Begin_Eager ==
    /\ tpc = "init"
    /\ \E id \in ItemIds :
         /\ response_id' = id
         /\ out' = << ThreadItemAddedEvent(AssistantMessageItem(id, <<>>, thread)) >>
    /\ tpc' = IF adk_response = None THEN "done" ELSE "loop"
    /\ UNCHANGED <<adk_response, thread, input>>
    /\ UNCHANGED NotT

Begin ==
    /\ tpc = "init"
    /\ IF adk_response = None
       THEN /\ tpc' = "done"
            /\ UNCHANGED response_id
       ELSE /\ tpc' = "loop"
            /\ \E id \in ItemIds : response_id' = id
    /\ UNCHANGED <<adk_response, thread, input, out>>
    /\ UNCHANGED NotT

\* One iteration of `async for event in adk_response` (lines 30-80).
OnEvent ==
    /\ tpc = "loop"
    /\ Len(input) < MaxEvents
    /\ \E event \in AgentEvents(MaxParts - PartsRead(input)) :
         /\ input' = Append(input, event)
         /\ out' = out \o Translate(response_id, thread, event)
    /\ UNCHANGED <<adk_response, thread, response_id, tpc>>
    /\ UNCHANGED NotT

\* The generator is exhausted: the loop ends and the function returns.
Exhausted ==
    /\ tpc = "loop"
    /\ tpc' = "done"
    /\ UNCHANGED <<adk_response, thread, input, response_id, out>>
    /\ UNCHANGED NotT

UpstreamRaises_Converted ==
    /\ tpc = "loop"
    /\ tpc' = "failed"
    /\ out' = Append(out, ThreadItemDoneEvent(
                              AssistantMessageItem(response_id, <<"">>, thread)))
    /\ UNCHANGED <<adk_response, thread, input, response_id>>
    /\ UNCHANGED NotT

\* The generator raises: nothing catches it, the call ends with the error.
UpstreamRaises ==
    /\ tpc = "loop"
    /\ tpc' = "failed"
    /\ UNCHANGED <<adk_response, thread, input, response_id, out>>
    /\ UNCHANGED NotT

Turns == {"t1", "t2"}

RunnerNames == {"temp", "facts", "metro"}

\* settings.TEMP_APP_NAME, the runner __init__ registers.
TEMP_APP_NAME == "temp"

\* No turn has begun.
BIdle ==
    /\ turn_pc = [t \in Turns |-> "idle"]
    /\ turn_in = [t \in Turns |-> <<>>]
    /\ turn_out = [t \in Turns |-> <<>>]
    /\ _events = [t \in Turns |-> <<>>]
    /\ streamed = [t \in Turns |-> <<>>]
    /\ blocked = [t \in Turns |-> FALSE]
    /\ client_tool_call = [t \in Turns |-> [type |-> None]]
    /\ tool_op = [op |-> None]
    /\ ntool = 0

\* RunnerManager.__init__ (lines 38-49): one runner, no close asked.
RIdle ==
    /\ _runners = {TEMP_APP_NAME}
    /\ cleanup_tasks = [n \in {} |-> None]
    /\ mpc = "open"
    /\ got = [status |-> None]

\* The metro thread exists (the processor created it) and nothing was
\* asked yet.
MIdle ==
    /\ metro_events = <<>>
    /\ metro_title = None
    /\ metro_op = [op |-> None, line |-> None]
    /\ metro_message = [hidden |-> <<>>, text |-> ""]
    /\ nmetro = 0

Callers == {"c1", "c2", "c3"}

\* One session is stored and every caller holds a fresh copy of it.
FIdle ==
    /\ db_session = [last_update_time |-> 0, events |-> <<>>]
    /\ caller_session = [c \in Callers |-> [last_update_time |-> 0, events |-> <<>>]]
    /\ fpc = [c \in Callers |-> "idle"]
    /\ append_op = [op |-> None]
    /\ nappend = 0

\* CatState's defaults (lines 21-26).
DefaultCat ==
    [name |-> "Unnamed Cat", energy |-> 6, happiness |-> 6, cleanliness |-> 6,
     color_pattern |-> None]

CIdle ==
    /\ cat = DefaultCat
    /\ cat_op = [op |-> None]

\* The tasks that may be inside save_thread at once.
Savers == {"s1", "s2"}

KIdle ==
    /\ save_sessions = [k \in {} |-> None]
    /\ save_pc = [c \in Savers |-> "idle"]
    /\ save_arg = [c \in Savers |-> [thread |-> None]]
    /\ create_calls = [k \in {} |-> 0]
    /\ save_op = [call |-> None]
    /\ nsave = 0

WIdle ==
    /\ resp_pc = "idle"
    /\ resp_in = <<>>
    /\ resp_raises = FALSE
    /\ resp_out = <<>>
    /\ update_calls = 0
    /\ nrespond = 0

SIdle ==
    /\ store_sessions = [k \in {} |-> "None"]
    /\ store_op = [op |-> None]
    /\ store_before = [k \in {} |-> "None"]
    /\ store_result = [status |-> None]
    /\ nstore = 0
    /\ store_saved = [k \in {} |-> "None"]

PIdle ==
    /\ sessions = {}
    /\ request = None
    /\ thread_metadata = None
    /\ adk_context = "u1"
    /\ ppc = "idle"
    /\ yielded = <<>>
    /\ produced = <<>>
    /\ frames = <<>>
    /\ respond_calls = 0
    /\ respond_events = <<>>
    /\ error = None
    /\ sessions0 = {}
    /\ nreq = 0
    /\ body = [type |-> None]
    /\ result = [kind |-> None]
    /\ session_ops = 0

InitTranslate ==
    /\ adk_response \in {None, "gen"}
    /\ thread = "thr_1"
    /\ input = <<>>
    /\ response_id = None
    /\ out = <<>>
    /\ tpc = "init"
    /\ PIdle
    /\ SIdle
    /\ BIdle
    /\ RIdle
    /\ MIdle
    /\ FIdle
    /\ CIdle
    /\ KIdle
    /\ WIdle

NextTranslate == Begin \/ OnEvent \/ Exhausted \/ UpstreamRaises

SpecTranslate == InitTranslate /\ [][NextTranslate]_vars

(***************************************************************************)
(* Properties of stream_agent_response                                     *)
(***************************************************************************)
IsItemAdded(o) == o.type = "thread.item.added"

IsItemDone(o) == o.type = "thread.item.done"

IsUpdated(o) == o.type = "thread.item.updated"

IsPartAdded(o) ==
    IsUpdated(o) /\ o.update.type = "assistant_message.content_part.added"

IsPartDelta(o) ==
    IsUpdated(o) /\ o.update.type = "assistant_message.content_part.text_delta"

IsPartDone(o) ==
    IsUpdated(o) /\ o.update.type = "assistant_message.content_part.done"

\* The item id an output event refers to.
ItemIdOf(o) == IF IsUpdated(o) THEN o.item_id ELSE o.item.id

\* The texts of the non-partial text chunks of the input, in input order.
FinalTexts(in) ==
    Flatten([i \in 1..Len(in) |->
        IF in[i].has_content /\ ~in[i].partial
        THEN [j \in 1..Len(TextParts(in[i])) |-> TextParts(in[i])[j].text]
        ELSE <<>>])

HasFinalText(in) == FinalTexts(in) # <<>>

\* The part-delta / part-done updates the input calls for, in input order.
ExpectedUpdates(in) ==
    Flatten([i \in 1..Len(in) |->
        IF in[i].has_content
        THEN [j \in 1..Len(TextParts(in[i])) |->
                 <<IF in[i].partial THEN "delta" ELSE "done",
                   TextParts(in[i])[j].text>>]
        ELSE <<>>])

\* The part-delta / part-done updates of the output, in output order.
TextUpdates(o) ==
    LET sel == SelectSeq(o, LAMBDA e : IsPartDelta(e) \/ IsPartDone(e))
    IN  [i \in 1..Len(sel) |->
            <<IF IsPartDelta(sel[i]) THEN "delta" ELSE "done",
              sel[i].update.text>>]

\* C1: when the input holds at least one non-partial text chunk, a finished
\* call has emitted exactly one item-added, exactly one part-added and
\* exactly one item-done, all carrying the id generated for the call.
C1_SingleIdentity ==
    (tpc = "done" /\ HasFinalText(input)) =>
        /\ Count(out, IsItemAdded) = 1
        /\ Count(out, IsPartAdded) = 1
        /\ Count(out, IsItemDone) = 1
        /\ \A i \in 1..Len(out) :
             (IsItemAdded(out[i]) \/ IsPartAdded(out[i]) \/ IsItemDone(out[i]))
                 => ItemIdOf(out[i]) = response_id

\* C2: every item-done of a finished call carries the text of the last
\* non-partial text chunk of the whole input.
C2_FinalTextPropagation ==
    (tpc = "done" /\ HasFinalText(input)) =>
        \A i \in 1..Len(out) :
            IsItemDone(out[i]) =>
                out[i].item.content
                    = <<FinalTexts(input)[Len(FinalTexts(input))]>>

\* C3: no item-done is emitted while the input is still being read, and a
\* finished call whose input held no non-partial text chunk emitted none.
C3_ItemDoneOnlyAtEnd ==
    /\ tpc = "loop" => Count(out, IsItemDone) = 0
    /\ (tpc = "done" /\ ~HasFinalText(input)) => Count(out, IsItemDone) = 0

\* C4: the part-delta and part-done updates of the output are, in order,
\* exactly the text-bearing parts of the input: a delta for a part of a
\* partial event, a done for a part of a non-partial event, each carrying
\* that part's own text.
C4_UpdatesMirrorParts == TextUpdates(out) = ExpectedUpdates(input)

C4_Witness ==
    /\ tpc = "done"
    /\ \E i \in 1..Len(input) : Len(TextParts(input[i])) = 2
    /\ \E i \in 1..Len(out) : IsPartDelta(out[i]) /\ out[i].update.text = "A"
    /\ \E i \in 1..Len(out) : IsPartDone(out[i]) /\ out[i].update.text = "B"

\* C5: the priming pair is emitted at most once per call, and only when
\* the input held an event without content.
C5_PrimingAtMostOnce ==
    /\ Count(out, IsItemAdded) <= 1
    /\ Count(out, IsPartAdded) <= 1
    /\ (Count(out, IsItemAdded) + Count(out, IsPartAdded) > 0) =>
           \E i \in 1..Len(input) : ~input[i].has_content

\* C6: a call on an absent generator handle, or on a generator that ends
\* without yielding any event, finishes normally with nothing emitted.
C6_EmptyInputEmptyOutput ==
    /\ (adk_response = None /\ tpc # "init") => (tpc = "done" /\ out = <<>>)
    /\ (tpc = "done" /\ input = <<>>) => out = <<>>

C6_Witness == tpc = "done" /\ adk_response = "gen" /\ input = <<>> /\ out = <<>>

\* C7: the output follows the lifecycle item-added, part-added, deltas,
\* part-done, item-done: every part-delta and part-done has an item-added
\* and a part-added before it, and nothing for the item follows item-done.
C7_LifecycleOrder ==
    /\ \A j \in 1..Len(out) :
         (IsPartDelta(out[j]) \/ IsPartDone(out[j])) =>
             /\ \E i \in 1..(j-1) : IsItemAdded(out[i])
             /\ \E i \in 1..(j-1) : IsPartAdded(out[i])
    /\ \A i \in 1..Len(out) :
         IsItemDone(out[i]) =>
             \A j \in (i+1)..Len(out) :
                 ~(IsItemAdded(out[j]) \/ IsUpdated(out[j]))

\* C21: when the upstream sequence raises, the call ends with that failure
\* and what it has emitted is exactly, in order, the events of the input
\* events read before the failure: nothing is added for the failure.
C21_UpstreamFailurePropagates ==
    tpc = "failed" =>
        out = Flatten([i \in 1..Len(input) |->
                          Translate(response_id, thread, input[i])])

C21_Witness ==
    /\ tpc = "failed"
    /\ Len(input) >= 2
    /\ Len(out) >= 3
    /\ ~IsItemDone(out[Len(out)])

(***************************************************************************)
(* ADKRequestProcessor: streaming requests                                 *)
(***************************************************************************)
\* chatkit request payloads (UserMessageInput, ThreadsCreateReq,
\* ThreadsAddUserMessageReq) as far as the processor reads them.
UserMessageInputs == [content : UserTexts, quoted_text : {None, "q"}]

StreamingReqs ==
    [type : {"threads.create"}, input : UserMessageInputs]
    \cup [type : {"threads.add_user_message"}, thread_id : ThreadIds,
          input : UserMessageInputs]

\* Thread as returned by create_thread.
Thread(id) == [id |-> id, title |-> "No title", items |-> <<>>]

ThreadCreatedEvent(th) == [type |-> "thread.created", thread |-> th]

\* _build_user_message_item
UserMessageItem(id, in, thread_id) ==
    [type |-> "user_message", id |-> id, content |-> in.content,
     thread_id |-> thread_id, attachments |-> <<>>,
     quoted_text |-> in.quoted_text]

\* The events the abstract respond callback may yield.
RespondEvents ==
    {ThreadItemAddedEvent([type |-> "assistant_message", id |-> i,
                           text |-> t, quoted_text |-> None]) :
        i \in {"id1"}, t \in {""}}
    \cup
    {ThreadItemDoneEvent([type |-> "assistant_message", id |-> i,
                          text |-> t, quoted_text |-> None]) :
        i \in {"id1"}, t \in Texts}

\* Fields pydantic declares Optional, which hold None when unset.
OptionalFields == {"quoted_text", "title"}

\* exclude_none=True on one model: fields holding None are left out.
ExcludeNone(r) ==
    [k \in {f \in DOMAIN r : ~(f \in OptionalFields /\ r[f] = None)} |-> r[k]]

\* _serialize: model_dump_json(by_alias=True, exclude_none=True)
_serialize(obj) ==
    IF "item" \in DOMAIN obj
    THEN [ExcludeNone(obj) EXCEPT !.item = ExcludeNone(obj.item)]
    ELSE ExcludeNone(obj)

\* b"data: " + b + b"\n\n"
SSEFrame(b) == <<"data: ", b, "\n\n">>

SessionKey(user, id) == <<AppName, user, id>>

\* The request kinds of chatkit's ChatKitReq union besides the four the
\* processor matches on: is_streaming_req counts threads.custom_action
\* (the widget actions the example servers handle) as streaming and
\* threads.update as non-streaming.
OtherStreamingReqs == [type : {"threads.custom_action"}, thread_id : ThreadIds]

NonStreamingReqs ==
    [type : {"threads.list"}]
    \cup [type : {"threads.get_by_id"}, thread_id : ThreadIds]
    \cup [type : {"threads.update"}, thread_id : ThreadIds]

ChatKitReqs == StreamingReqs \cup OtherStreamingReqs \cup NonStreamingReqs

\* Request bodies: every well-formed request, and one that is not.
Bodies == ChatKitReqs \cup {[type |-> "garbage"]}

\* What no parsed request looks like.
Invalid == [type |-> None]

\* TypeAdapter(ChatKitReq).validate_json: the parsed request, or Invalid
\* where pydantic raises ValidationError.
validate_json_Lenient(b) == IF b \in ChatKitReqs THEN b ELSE [type |-> "threads.list"]

validate_json(b) == IF b \in ChatKitReqs THEN b ELSE Invalid

\* chatkit.types.is_streaming_req
is_streaming_req(req) ==
    req.type \in {"threads.create", "threads.add_user_message",
                  "threads.custom_action"}

StreamingResult == [kind |-> "StreamingResult"]

NonStreamingResult(json) == [kind |-> "NonStreamingResult", json |-> json]

NoResult == [kind |-> None]

\* list_threads: one ThreadMetadata per session of the caller.
list_threads(user) ==
    [data |-> {k[3] : k \in {x \in sessions : x[1] = AppName /\ x[2] = user}}]

\* process, lines 64-73, with _process_non_streaming (lines 149-172): the
\* body is validated first; a streaming request is wrapped in a
\* StreamingResult with nothing of the generator run yet; a non-streaming
\* request is answered before process returns.
Process ==
    /\ ppc \in {"idle", "done", "failed"}
    /\ nreq < MaxRequests
    /\ \E b \in Bodies, user \in Users :
         LET parsed_request == validate_json(b)
         IN  /\ body' = b
             /\ adk_context' = user
             /\ request' = parsed_request
             /\ IF parsed_request = Invalid
                THEN /\ ppc' = "failed"
                     /\ error' = "ValidationError"
                     /\ result' = NoResult
                     /\ session_ops' = 0
                ELSE IF is_streaming_req(parsed_request)
                THEN /\ ppc' = "start"
                     /\ error' = None
                     /\ result' = StreamingResult
                     /\ session_ops' = 0
                ELSE IF parsed_request.type = "threads.list"
                THEN /\ ppc' = "done"
                     /\ error' = None
                     /\ result' = NonStreamingResult(_serialize(list_threads(user)))
                     /\ session_ops' = 1
                ELSE IF parsed_request.type = "threads.get_by_id"
                THEN /\ session_ops' = 1
                     /\ IF SessionKey(user, parsed_request.thread_id) \in sessions
                        THEN /\ ppc' = "done"
                             /\ error' = None
                             /\ result' = NonStreamingResult(
                                    _serialize(Thread(parsed_request.thread_id)))
                        ELSE /\ ppc' = "failed"
                             /\ error' = "ValueError"
                             /\ result' = NoResult
                ELSE /\ ppc' = "failed"
                     /\ error' = "AssertionError"
                     /\ result' = NoResult
                     /\ session_ops' = 0
    /\ thread_metadata' = None
    /\ yielded' = <<>>
    /\ produced' = <<>>
    /\ frames' = <<>>
    /\ respond_calls' = 0
    /\ respond_events' = <<>>
    /\ sessions0' = sessions
    /\ nreq' = nreq + 1
    /\ UNCHANGED sessions
    /\ UNCHANGED NotP

\* _process_streaming_impl, lines 146-147: a streaming request that is
\* neither of the two matched kinds reaches assert_never when the stream
\* is first iterated.
UnmatchedStreamingReq ==
    /\ ppc = "start"
    /\ request.type \notin {"threads.create", "threads.add_user_message"}
    /\ error' = "AssertionError"
    /\ ppc' = "failed"
    /\ UNCHANGED <<sessions, request, thread_metadata, adk_context, yielded,
                   produced, frames, respond_calls, respond_events, sessions0,
                   nreq, body, result, session_ops>>
    /\ UNCHANGED NotP

\* _process_streaming_impl, case ThreadsCreateReq, lines 119-123:
\* create_thread creates the session, then thread.created is yielded.
CreateThread ==
    /\ ppc = "start"
    /\ request.type = "threads.create"
    /\ \E id \in ThreadIds :
         /\ \A k \in sessions : k[3] # id
         /\ sessions' = sessions \cup {SessionKey(adk_context, id)}
         /\ thread_metadata' = id
         /\ yielded' = <<ThreadCreatedEvent(Thread(id))>>
         /\ produced' = Append(produced, ThreadCreatedEvent(Thread(id)))
    /\ ppc' = "created"
    /\ UNCHANGED <<request, adk_context, frames, respond_calls,
                   respond_events, error, sessions0, nreq, body, result>>
    /\ session_ops' = session_ops + 1
    /\ UNCHANGED NotP

\* Lines 124-130 and 96: the user item is built and its item-done is
\* yielded by _process_new_thread_item_respond.
YieldUserItemDone_Skipped ==
    /\ ppc = "created"
    /\ yielded = <<>>
    /\ ppc' = "acked"
    /\ UNCHANGED <<sessions, request, thread_metadata, adk_context, yielded,
                   produced, frames, respond_calls, respond_events, error,
                   sessions0, nreq, body, result, session_ops>>
    /\ UNCHANGED NotP

YieldUserItemDone ==
    /\ ppc = "created"
    /\ yielded = <<>>
    /\ ppc' = "acked"
    /\ \E mid \in MessageIds :
         LET ev == ThreadItemDoneEvent(
                       UserMessageItem(mid, request.input, thread_metadata))
         IN  /\ yielded' = <<ev>>
             /\ produced' = Append(produced, ev)
    /\ UNCHANGED <<sessions, request, thread_metadata, adk_context, frames,
                   respond_calls, respond_events, error, sessions0, nreq, body, result, session_ops>>
    /\ UNCHANGED NotP

\* _process_streaming_impl, case ThreadsAddUserMessageReq, lines 133-144
\* with load_thread (_thread_management.py lines 59-80): ValueError when
\* get_session finds no session, else the user item-done is yielded.
LoadThread_NoCheck ==
    /\ ppc = "start"
    /\ request.type = "threads.add_user_message"
    /\ thread_metadata' = request.thread_id
    /\ ppc' = "acked"
    /\ \E mid \in MessageIds :
         LET ev == ThreadItemDoneEvent(
                       UserMessageItem(mid, request.input, request.thread_id))
         IN  /\ yielded' = <<ev>>
             /\ produced' = Append(produced, ev)
    /\ UNCHANGED <<sessions, request, adk_context, frames, respond_calls,
                   respond_events, error, sessions0, nreq, body, result>>
    /\ session_ops' = session_ops + 1
    /\ UNCHANGED NotP

LoadThread ==
    /\ ppc = "start"
    /\ request.type = "threads.add_user_message"
    /\ IF SessionKey(adk_context, request.thread_id) \notin sessions
       THEN /\ error' = "ValueError"
            /\ ppc' = "failed"
            /\ UNCHANGED <<thread_metadata, yielded, produced>>
       ELSE /\ thread_metadata' = request.thread_id
            /\ ppc' = "acked"
            /\ \E mid \in MessageIds :
                 LET ev == ThreadItemDoneEvent(
                               UserMessageItem(mid, request.input,
                                               request.thread_id))
                 IN  /\ yielded' = <<ev>>
                     /\ produced' = Append(produced, ev)
            /\ UNCHANGED error
    /\ UNCHANGED <<sessions, request, adk_context, frames, respond_calls,
                   respond_events, sessions0, nreq, body, result>>
    /\ session_ops' = session_ops + 1
    /\ UNCHANGED NotP

\* Line 98: once the consumer asks for more, self.respond is called.
CallRespond ==
    /\ ppc = "acked"
    /\ yielded = <<>>
    /\ respond_calls' = respond_calls + 1
    /\ ppc' = "responding"
    /\ UNCHANGED <<sessions, request, thread_metadata, adk_context, yielded,
                   produced, frames, respond_events, error, sessions0, nreq, body, result, session_ops>>
    /\ UNCHANGED NotP

\* Lines 100-101 (and 125-130 / 139-144): an event of the respond stream
\* is passed on unchanged.
RespondYields ==
    /\ ppc = "responding"
    /\ yielded = <<>>
    /\ Len(respond_events) < MaxRespond
    /\ \E ev \in RespondEvents :
         /\ respond_events' = Append(respond_events, ev)
         /\ yielded' = <<ev>>
         /\ produced' = Append(produced, ev)
    /\ UNCHANGED <<sessions, request, thread_metadata, adk_context, ppc,
                   frames, respond_calls, error, sessions0, nreq, body, result, session_ops>>
    /\ UNCHANGED NotP

\* The respond stream ends: every generator of the request returns.
RespondEnds ==
    /\ ppc = "responding"
    /\ yielded = <<>>
    /\ ppc' = "done"
    /\ UNCHANGED <<sessions, request, thread_metadata, adk_context, yielded,
                   produced, frames, respond_calls, respond_events, error,
                   sessions0, nreq, body, result, session_ops>>
    /\ UNCHANGED NotP

\* _process_streaming, lines 108-110: the event _process_streaming_impl
\* yielded is serialized, framed and yielded to the transport.
EmitFrame_Prepend ==
    /\ yielded # <<>>
    /\ frames' = <<SSEFrame(_serialize(yielded[1]))>> \o frames
    /\ yielded' = <<>>
    /\ UNCHANGED <<sessions, request, thread_metadata, adk_context, ppc,
                   produced, respond_calls, respond_events, error, sessions0,
                   nreq, body, result, session_ops>>
    /\ UNCHANGED NotP

EmitFrame ==
    /\ yielded # <<>>
    /\ frames' = Append(frames, SSEFrame(_serialize(yielded[1])))
    /\ yielded' = <<>>
    /\ UNCHANGED <<sessions, request, thread_metadata, adk_context, ppc,
                   produced, respond_calls, respond_events, error, sessions0,
                   nreq, body, result, session_ops>>
    /\ UNCHANGED NotP

TIdle ==
    /\ adk_response = None
    /\ thread = "thr_1"
    /\ input = <<>>
    /\ response_id = None
    /\ out = <<>>
    /\ tpc = "init"

InitProcess == TIdle /\ PIdle /\ SIdle /\ BIdle /\ RIdle /\ MIdle /\ FIdle /\ CIdle /\ KIdle /\ WIdle

NextProcess ==
    \/ Process
    \/ UnmatchedStreamingReq
    \/ CreateThread
    \/ YieldUserItemDone
    \/ LoadThread
    \/ CallRespond
    \/ RespondYields
    \/ RespondEnds
    \/ EmitFrame

SpecProcess == InitProcess /\ [][NextProcess]_vars

(***************************************************************************)
(* Properties of the streaming request flows                               *)
(***************************************************************************)
IsThreadCreated(o) == o.type = "thread.created"

\* The item-done of the request's own user message.
IsUserItemDone(o) ==
    /\ o.type = "thread.item.done"
    /\ o.item.type = "user_message"
    /\ o.item.content = request.input.content
    /\ o.item.thread_id = thread_metadata

\* Number of events the flow emits before it turns to respond.
PreambleLen == IF request.type = "threads.create" THEN 2 ELSE 1

InFlow == ppc \in {"start", "created", "acked", "responding", "done", "failed"}

\* C8: the create-thread stream begins with exactly one thread-created
\* followed at once by the user's item-done; in both flows the user's
\* item-done is out before respond is called or yields anything; the
\* add-user-message stream holds no thread-created.
C8_UserAckBeforeRespond ==
    InFlow =>
        /\ request.type = "threads.create" =>
             /\ Len(produced) >= 1 => IsThreadCreated(produced[1])
             /\ Len(produced) >= 2 => IsUserItemDone(produced[2])
             /\ Count(produced, IsThreadCreated) <= 1
             /\ ppc \in {"created", "acked", "responding", "done"} =>
                    Count(produced, IsThreadCreated) = 1
        /\ request.type = "threads.add_user_message" =>
             /\ Count(produced, IsThreadCreated) = 0
             /\ Len(produced) >= 1 => IsUserItemDone(produced[1])
        /\ (respond_calls > 0 \/ respond_events # <<>>) =>
             /\ respond_calls = 1
             /\ Len(produced) >= PreambleLen
             /\ IsUserItemDone(produced[PreambleLen])
             /\ produced = SubSeq(produced, 1, PreambleLen) \o respond_events

C8_Witness ==
    /\ ppc = "done"
    /\ request.type = "threads.add_user_message"
    /\ Len(respond_events) = 2
    /\ nreq >= 2

\* An add-user-message request on a thread that has no session for the
\* caller has been started and its generator has run.
MissingThreadCase ==
    /\ InFlow
    /\ ppc # "start"
    /\ request.type = "threads.add_user_message"
    /\ SessionKey(adk_context, request.thread_id) \notin sessions0

C10_OneFramePerEvent ==
    /\ Len(frames) = Len(produced) - Len(yielded)
    /\ \A i \in 1..Len(frames) :
         /\ Len(frames[i]) = 3
         /\ frames[i][1] = "data: "
         /\ frames[i][2] = _serialize(produced[i])
         /\ frames[i][3] = "\n\n"
    /\ ppc \in {"done", "failed"} => Len(frames) = Len(produced)

C10_Witness ==
    /\ ppc = "done"
    /\ request.type = "threads.create"
    /\ Len(frames) = 4
    /\ frames[3] # frames[4]

(***************************************************************************)
(* Properties of process                                                   *)
(***************************************************************************)
\* process has been called and the body parsed into a request.
Parsed == ppc # "idle" /\ request # Invalid

\* C11: a parsed request gets a streaming result exactly when it is
\* create-thread or add-user-message, a non-streaming result exactly when
\* it is list-threads or get-thread-by-id (and the thread is there), and
\* no parsed request ever runs into assert_never.
C11_DispatchExhaustive ==
    Parsed =>
        /\ result.kind = "StreamingResult" <=>
               request.type \in {"threads.create", "threads.add_user_message"}
        /\ result.kind = "NonStreamingResult" =>
               request.type \in {"threads.list", "threads.get_by_id"}
        /\ (request.type \in {"threads.list", "threads.get_by_id"}
               /\ error = None) => result.kind = "NonStreamingResult"
        /\ error # "AssertionError"

\* process was called on a body that is no request of the protocol.
MalformedCase == ppc # "idle" /\ body \notin ChatKitReqs

\* C12: a body that does not parse makes process fail with the validation
\* error before any session-service call: the sessions are as they were,
\* respond is not called and no result is returned.
C12_MalformedFailsFirst ==
    MalformedCase =>
        /\ ppc = "failed"
        /\ error = "ValidationError"
        /\ session_ops = 0
        /\ sessions = sessions0
        /\ respond_calls = 0
        /\ produced = <<>>
        /\ result = NoResult

C12_Witness == MalformedCase /\ ppc = "failed" /\ sessions # {} /\ nreq >= 2

(***************************************************************************)
(* ADKStore: threads kept as sessions of the session service               *)
(***************************************************************************)
Apps == {"app", "app2"}

\* ADKContext values the store is called with.
StoreContexts == [app_name : Apps, user_id : Users]

StoreThreadIds == {"thr_1", "thr_2"}

Titles == {None, "T1", "T2"}

\* chatkit ThreadMetadata: id, optional title, creation time.
ThreadMetadata(id, title) == [id |-> id, title |-> title, created_at |-> "t0"]

ThreadMetadatas == {ThreadMetadata(i, t) : i \in StoreThreadIds, t \in Titles}

_CHATKIT_THREAD_METADTA == "chatkit-thread-metadata"

\* model_dump_json(exclude_none=True, exclude={"items"}) read back as a
\* dict: an unset title is absent from the dict.
_serialize_thread_metadata(th) == ExcludeNone(th)

\* ThreadMetadata.model_validate: an absent title is None.
model_validate(d) ==
    [id |-> d.id,
     title |-> IF "title" \in DOMAIN d THEN d.title ELSE None,
     created_at |-> d.created_at]

StoreKey(ctx, id) == <<ctx.app_name, ctx.user_id, id>>

NoSessions == [k \in {} |-> None]

\* session_service.create_session(..., state=state): a session with the
\* given initial state and an empty event log.
create_session(store, key, state) ==
    (key :> [state |-> state, events |-> <<>>]) @@ store

append_event_NoDelta(store, key, event) ==
    [store EXCEPT ![key] =
        [state |-> @.state, events |-> Append(@.events, event)]]

\* session_service.append_event: the event joins the log and its state
\* delta is applied to the session state.
append_event(store, key, event) ==
    [store EXCEPT ![key] =
        [state |-> event.state_delta @@ @.state,
         events |-> Append(@.events, event)]]

\* The Event save_thread builds (lines 90-99).
SystemEvent(state_delta) == [author |-> "system", state_delta |-> state_delta]

\* ADKStore.save_thread (lines 75-100).
save_thread_AlwaysCreate(store, th, ctx) ==
    LET key == StoreKey(ctx, th.id)
        state == (_CHATKIT_THREAD_METADTA :> _serialize_thread_metadata(th))
    IN  create_session([k \in DOMAIN store \ {key} |-> store[k]], key, state)

save_thread(store, th, ctx) ==
    LET key == StoreKey(ctx, th.id)
        state == (_CHATKIT_THREAD_METADTA :> _serialize_thread_metadata(th))
    IN  IF key \notin DOMAIN store
        THEN create_session(store, key, state)
        ELSE append_event(store, key, SystemEvent(state))

\* ADKStore.load_thread (lines 61-73): ValueError without a session, the
\* subscript's KeyError when the state has no thread metadata.
load_thread(store, id, ctx) ==
    LET key == StoreKey(ctx, id)
    IN  IF key \notin DOMAIN store
        THEN [status |-> "ValueError"]
        ELSE IF _CHATKIT_THREAD_METADTA \notin DOMAIN store[key].state
        THEN [status |-> "KeyError"]
        ELSE [status |-> "ok",
              thread |-> model_validate(
                  store[key].state[_CHATKIT_THREAD_METADTA])]

\* _to_user_message_content / _to_assistant_message_content (lines
\* 28-49): the texts of the event's parts, none for an event without
\* content.
EventTexts(event) ==
    IF "text" \in DOMAIN event /\ event.text # NoText
    THEN <<event.text>>
    ELSE <<>>

\* The item load_thread_items builds for one event (lines 123-141): a
\* user message for an event authored by "user", an assistant message for
\* every other event.
ItemOfEvent(event, thread_id) ==
    IF event.author = "user"
    THEN [type |-> "user_message", thread_id |-> thread_id,
          content |-> EventTexts(event)]
    ELSE [type |-> "assistant_message", thread_id |-> thread_id,
          content |-> EventTexts(event)]

\* ADKStore.load_thread_items (lines 102-144).
load_thread_items(store, thread_id, ctx) ==
    LET key == StoreKey(ctx, thread_id)
    IN  IF key \notin DOMAIN store
        THEN [status |-> "ValueError"]
        ELSE [status |-> "ok",
              data |-> [i \in 1..Len(store[key].events) |->
                           ItemOfEvent(store[key].events[i], thread_id)]]

StoreSaveThread ==
    /\ nstore < MaxStoreOps
    /\ \E th \in ThreadMetadatas, ctx \in StoreContexts :
         /\ store_sessions' = save_thread(store_sessions, th, ctx)
         /\ store_op' = [op |-> "save_thread", key |-> StoreKey(ctx, th.id),
                         thread |-> th]
         /\ store_saved' = (StoreKey(ctx, th.id) :> th) @@ store_saved
    /\ store_before' = store_sessions
    /\ store_result' = [status |-> "ok"]
    /\ nstore' = nstore + 1
    /\ UNCHANGED NotS

StoreLoadThread ==
    /\ nstore < MaxStoreOps
    /\ \E id \in StoreThreadIds, ctx \in StoreContexts :
         /\ store_result' = load_thread(store_sessions, id, ctx)
         /\ store_op' = [op |-> "load_thread", key |-> StoreKey(ctx, id)]
    /\ store_before' = store_sessions
    /\ nstore' = nstore + 1
    /\ UNCHANGED store_saved
    /\ UNCHANGED store_sessions
    /\ UNCHANGED NotS

\* The runner appends the user's and the model's events to the session of
\* the thread it runs on.
RunnerAppendEvent ==
    /\ nstore < MaxStoreOps
    /\ \E key \in DOMAIN store_sessions, a \in {"user", "model"} :
         /\ store_sessions' =
                append_event(store_sessions, key,
                    [author |-> a, text |-> "A", state_delta |-> NoSessions])
         /\ store_op' = [op |-> "run", key |-> key]
    /\ store_before' = store_sessions
    /\ store_result' = [status |-> "ok"]
    /\ nstore' = nstore + 1
    /\ UNCHANGED store_saved
    /\ UNCHANGED NotS

\* customer_snapshot (api/support.py lines 66-79): the customer endpoint
\* creates the session of a thread it does not find, with the airline
\* context as its only state.
CustomerSnapshot ==
    /\ nstore < MaxStoreOps
    /\ \E id \in StoreThreadIds :
         LET key == <<"app", "u1", id>>
         IN  /\ key \notin DOMAIN store_sessions
             /\ store_sessions' =
                    create_session(store_sessions, key, ("context" :> "ctx"))
             /\ store_op' = [op |-> "customer_snapshot", key |-> key]
    /\ store_before' = store_sessions
    /\ store_result' = [status |-> "ok"]
    /\ nstore' = nstore + 1
    /\ UNCHANGED store_saved
    /\ UNCHANGED NotS

InitStore ==
    /\ TIdle
    /\ PIdle
    /\ BIdle
    /\ RIdle
    /\ MIdle
    /\ FIdle
    /\ CIdle
    /\ KIdle
    /\ WIdle
    /\ store_sessions = NoSessions
    /\ store_op = [op |-> None]
    /\ store_before = NoSessions
    /\ store_result = [status |-> None]
    /\ nstore = 0
    /\ store_saved = [k \in {} |-> "None"]

NextStore ==
    \/ StoreSaveThread
    \/ StoreLoadThread
    \/ RunnerAppendEvent
    \/ CustomerSnapshot

SpecStore == InitStore /\ [][NextStore]_vars

(***************************************************************************)
(* Properties of the store                                                 *)
(***************************************************************************)
\* The sessions other than k are the same in two stores.
SameElsewhere(a, b, k) ==
    /\ DOMAIN a \ {k} = DOMAIN b \ {k}
    /\ \A x \in DOMAIN a \ {k} : a[x] = b[x]

\* C13: save_thread on a thread without a session creates the session,
\* with the thread metadata in its state and an empty log; on a thread
\* with a session it creates nothing and appends exactly one event,
\* system-authored, whose state delta is the thread metadata, after the
\* events the log already held.  No other session is touched.
C13_SaveCreatesOrAppends ==
    store_op.op = "save_thread" =>
        LET key == store_op.key
            now == store_sessions[key]
            meta == now.state[_CHATKIT_THREAD_METADTA]
        IN  /\ key \in DOMAIN store_sessions
            /\ SameElsewhere(store_sessions, store_before, key)
            /\ meta.id = store_op.thread.id
            /\ meta.created_at = store_op.thread.created_at
            /\ IF store_op.thread.title = None
               THEN "title" \notin DOMAIN meta
               ELSE meta.title = store_op.thread.title
            /\ IF key \notin DOMAIN store_before
               THEN now.events = <<>>
               ELSE LET was == store_before[key]
                    IN  /\ Len(now.events) = Len(was.events) + 1
                        /\ SubSeq(now.events, 1, Len(was.events)) = was.events
                        /\ now.events[Len(now.events)].author = "system"
                        /\ now.events[Len(now.events)].state_delta
                               [_CHATKIT_THREAD_METADTA] = meta

C13_Witness ==
    /\ store_op.op = "save_thread"
    /\ store_op.key \in DOMAIN store_before
    /\ Len(store_before[store_op.key].events) >= 2
    /\ \E i \in 1..Len(store_before[store_op.key].events) :
         store_before[store_op.key].events[i].author = "user"

\* C14: load_thread returns a thread exactly when the session of
\* the (app, user, thread id) triple exists, fails with the not-found
\* error otherwise, and a failed load changes nothing.
C14_LoadIffSessionExists ==
    store_op.op = "load_thread" =>
        /\ store_result.status = "ok" <=> store_op.key \in DOMAIN store_before
        /\ store_op.key \notin DOMAIN store_before =>
               store_result.status = "ValueError"
        /\ store_sessions = store_before

(***************************************************************************)
(* ADKAgentContext: the queue tools push events on during a turn           *)
(***************************************************************************)
MaxToolCalls == 3

MaxTurnEvents == 1

\* asyncio.Queue() (line 45) takes the default maxsize: 0, no limit.
maxsize == 0

\* asyncio.Queue.full.
full(q) == maxsize > 0 /\ Len(q) >= maxsize

\* asyncio.Queue.put on a queue with room: the event joins at the back;
\* get takes from the front.
put_Front(q, e) == <<e>> \o q

put(q, e) == Append(q, e)

\* The queue of a turn's context: _events is a private attribute, whose
\* default pydantic copies for every instance it builds.
QueueOf_Shared(t) == "t1"

QueueOf(t) == t

\* The two turns run for two different threads.
ThreadOf(t) == IF t = "t1" THEN "thr_1" ELSE "thr_2"

\* uuid4 of each turn's stream_agent_response call.
ResponseIdOf(t) == IF t = "t1" THEN "id1" ELSE "id2"

\* tool_context.function_call_id.
FunctionCallIds == {None, "fc1"}

\* The agent events a turn's runner yields.
TurnAgentEvents ==
    {[has_content |-> FALSE, parts |-> <<>>, partial |-> FALSE],
     [has_content |-> TRUE, parts |-> <<[text |-> "A"]>>, partial |-> FALSE]}

ProgressUpdateEvent(text) == [type |-> "progress_update", text |-> text]

ClientEffectEvent(name, data) ==
    [type |-> "client_effect", name |-> name, data |-> data]

WidgetItem(id, thread_id, widget) ==
    [type |-> "widget", id |-> id, thread_id |-> thread_id, widget |-> widget]

ClientToolCallItem(id, thread_id, name, arguments, status, call_id) ==
    [type |-> "client_tool_call", id |-> id, thread_id |-> thread_id,
     name |-> name, arguments |-> arguments, status |-> status,
     call_id |-> call_id]

\* ClientToolCallState has three fields: name, arguments, status.
ClientToolCallStates ==
    {[name |-> "get_selected_stations", arguments |-> "{}", status |-> "pending"]}

QueueCompleteSentinel == [type |-> "complete"]

\* ADKAgentContext.stream (lines 51-52): await self._events.put(event).
Stream(t, e) ==
    /\ streamed' = [streamed EXCEPT ![t] = Append(@, e)]
    /\ IF full(_events[QueueOf(t)])
       THEN /\ blocked' = [blocked EXCEPT ![t] = TRUE]
            /\ UNCHANGED _events
       ELSE /\ _events' = [_events EXCEPT ![QueueOf(t)] = put(@, e)]
            /\ UNCHANGED blocked

\* What a tool's call found: the queue and the recorded client tool call.
ToolOp(op, t, fc, status) ==
    [op |-> op, turn |-> t, function_call_id |-> fc, status |-> status,
     events_before |-> _events[QueueOf(t)],
     client_tool_call_before |-> client_tool_call[t]]

\* A tool can call while the agent of its turn runs.
CanCall(t) == turn_pc[t] = "running" /\ ~blocked[t] /\ ntool < MaxToolCalls

\* The respond callback builds the turn's ADKAgentContext and starts the
\* runner and stream_agent_response (facts/_server.py lines 76-90).
StartTurn ==
    /\ \E t \in Turns :
         /\ turn_pc[t] = "idle"
         /\ turn_pc' = [turn_pc EXCEPT ![t] = "running"]
    /\ UNCHANGED <<turn_in, turn_out, _events, streamed, blocked,
                   client_tool_call, tool_op, ntool>>
    /\ UNCHANGED NotB

\* stream_event (lines 94-105).
StreamEvent ==
    /\ \E t \in Turns :
         /\ CanCall(t)
         /\ Stream(t, ProgressUpdateEvent("P"))
         /\ tool_op' = ToolOp("stream_event", t, None, "ok")
    /\ ntool' = ntool + 1
    /\ UNCHANGED <<turn_pc, turn_in, turn_out, client_tool_call>>
    /\ UNCHANGED NotB

\* stream_client_effect (lines 139-158).
StreamClientEffect ==
    /\ \E t \in Turns :
         /\ CanCall(t)
         /\ Stream(t, ClientEffectEvent("n", "d"))
         /\ tool_op' = ToolOp("stream_client_effect", t, None, "ok")
    /\ ntool' = ntool + 1
    /\ UNCHANGED <<turn_pc, turn_in, turn_out, client_tool_call>>
    /\ UNCHANGED NotB

\* stream_widget (lines 108-119) and ADKAgentContext.stream_widget (54-66).
StreamWidget ==
    /\ \E t \in Turns, fc \in FunctionCallIds :
         /\ CanCall(t)
         /\ IF fc = None
            THEN /\ tool_op' = ToolOp("stream_widget", t, fc, "ValueError")
                 /\ UNCHANGED <<_events, streamed, blocked>>
            ELSE /\ Stream(t, ThreadItemDoneEvent(WidgetItem(fc, ThreadOf(t), "w")))
                 /\ tool_op' = ToolOp("stream_widget", t, fc, "ok")
    /\ ntool' = ntool + 1
    /\ UNCHANGED <<turn_pc, turn_in, turn_out, client_tool_call>>
    /\ UNCHANGED NotB

\* ADKAgentContext.issue_client_tool_call (lines 68-84): the arguments of
\* ClientToolCallItem are evaluated before the assignment, and reading a
\* field the state does not have raises AttributeError.
issue_client_tool_call(current, thread_id, state, fc) ==
    IF fc = None
    THEN [status |-> "ValueError", client_tool_call |-> current]
    ELSE IF "id" \notin DOMAIN state
    THEN [status |-> "AttributeError", client_tool_call |-> current]
    ELSE [status |-> "ok",
          client_tool_call |->
              ClientToolCallItem(fc, thread_id, state.name, state.arguments,
                                 state.status, state.id)]

\* issue_client_tool_call (lines 122-136).
IssueClientToolCall ==
    /\ \E t \in Turns, fc \in FunctionCallIds, state \in ClientToolCallStates :
         /\ CanCall(t)
         /\ LET r == issue_client_tool_call(client_tool_call[t], ThreadOf(t),
                                            state, fc)
            IN  /\ client_tool_call' =
                       [client_tool_call EXCEPT ![t] = r.client_tool_call]
                /\ tool_op' = ToolOp("issue_client_tool_call", t, fc, r.status)
    /\ ntool' = ntool + 1
    /\ UNCHANGED <<turn_pc, turn_in, turn_out, _events, streamed, blocked>>
    /\ UNCHANGED NotB

\* The runner yields an agent event and stream_agent_response translates
\* it (one iteration of its loop, _response.py lines 30-80).
TurnOnEvent ==
    /\ \E t \in Turns, event \in TurnAgentEvents :
         /\ turn_pc[t] = "running"
         /\ ~blocked[t]
         /\ Len(turn_in[t]) < MaxTurnEvents
         /\ turn_in' = [turn_in EXCEPT ![t] = Append(@, event)]
         /\ turn_out' = [turn_out EXCEPT ![t] =
                @ \o Translate(ResponseIdOf(t), ThreadOf(t), event)]
    /\ UNCHANGED <<turn_pc, _events, streamed, blocked, client_tool_call,
                   tool_op, ntool>>
    /\ UNCHANGED NotB

\* The runner's generator is exhausted: stream_agent_response returns and
\* the turn's stream ends.
TurnEnds ==
    /\ \E t \in Turns :
         /\ turn_pc[t] = "running"
         /\ ~blocked[t]
         /\ turn_pc' = [turn_pc EXCEPT ![t] = "done"]
    /\ UNCHANGED <<turn_in, turn_out, _events, streamed, blocked,
                   client_tool_call, tool_op, ntool>>
    /\ UNCHANGED NotB

InitBridge == TIdle /\ PIdle /\ SIdle /\ BIdle /\ RIdle /\ MIdle /\ FIdle /\ CIdle /\ KIdle /\ WIdle

NextBridge ==
    \/ StartTurn
    \/ StreamEvent
    \/ StreamClientEffect
    \/ StreamWidget
    \/ IssueClientToolCall
    \/ TurnOnEvent
    \/ TurnEnds

SpecBridge == InitBridge /\ [][NextBridge]_vars

(***************************************************************************)
(* Properties of the bridge                                                *)
(***************************************************************************)
\* C15: no stream call waits for room, whatever the queue holds, and the
\* queue hands out (front first) exactly the events stream was called
\* with, in call order: none lost, none twice, none moved.
C15_UnboundedFifo ==
    \A t \in Turns :
        /\ ~blocked[t]
        /\ _events[QueueOf(t)] = streamed[t]

C15_Witness ==
    \E t \in Turns :
        /\ Len(streamed[t]) >= 2
        /\ streamed[t][1] # streamed[t][2]
        /\ tool_op.turn = t
        /\ tool_op.status = "ok"
        /\ tool_op.events_before # <<>>

\* e occurs in the sequence s.
Occurs(e, s) == \E i \in 1..Len(s) : s[i] = e

\* C16: when a turn's stream has ended, every event the tools of the turn
\* pushed on its bridge has been emitted in the turn's outbound stream and
\* none waits on the queue.
C16_PushedEventsEmitted ==
    \A t \in Turns :
        turn_pc[t] = "done" =>
            /\ \A i \in 1..Len(streamed[t]) : Occurs(streamed[t][i], turn_out[t])
            /\ _events[QueueOf(t)] = <<>>

\* C17: when a turn's stream has ended, the complete sentinel has been put
\* on the turn's queue exactly once, behind every streamed event.
C17_SentinelOncePerTurn ==
    \A t \in Turns :
        turn_pc[t] = "done" =>
            LET q == _events[QueueOf(t)]
            IN  /\ Count(q, LAMBDA e : e = QueueCompleteSentinel) = 1
                /\ q[Len(q)] = QueueCompleteSentinel

\* The output of stream_agent_response over the agent events of turn t.
OutputAlone(t) ==
    Flatten([i \in 1..Len(turn_in[t]) |->
                Translate(ResponseIdOf(t), ThreadOf(t), turn_in[t][i])])

\* C18: two turns hold two queues; a turn's queue holds the events
\* streamed through its own context and no other, and a turn's output is
\* the output of its own agent events, whatever the other turn does.
C18_TurnsIsolated ==
    \A t \in Turns, u \in Turns :
        t # u =>
            /\ QueueOf(t) # QueueOf(u)
            /\ \A i \in 1..Len(_events[QueueOf(t)]) :
                   /\ Occurs(_events[QueueOf(t)][i], streamed[t])
                   /\ _events[QueueOf(t)][i].type = "thread.item.done"
                          => _events[QueueOf(t)][i].item.thread_id = ThreadOf(t)
            /\ Len(_events[QueueOf(t)]) = Len(streamed[t])
            /\ turn_out[t] = OutputAlone(t)
            /\ \A i \in 1..Len(turn_out[t]) :
                   /\ ~Occurs(turn_out[t][i], streamed[u])
                   /\ IsUpdated(turn_out[t][i])
                      \/ turn_out[t][i].item.thread_id = ThreadOf(t)

C18_Witness ==
    /\ turn_pc["t1"] = "running"
    /\ turn_pc["t2"] = "running"
    /\ streamed["t1"] # <<>>
    /\ streamed["t2"] # <<>>
    /\ streamed["t1"][1].type = streamed["t2"][1].type
    /\ turn_out["t1"] # <<>>
    /\ turn_out["t2"] # <<>>

\* C19: stream_widget and issue_client_tool_call without a function call
\* id fail and change neither the queue nor client_tool_call; with an id
\* they succeed, and the widget put on the queue, respectively the client
\* tool call recorded, carries that id and the id of the turn's thread.
C19_FunctionCallIdRequired ==
    tool_op.op \in {"stream_widget", "issue_client_tool_call"} =>
        LET t == tool_op.turn
            q == _events[QueueOf(t)]
        IN  IF tool_op.function_call_id = None
            THEN /\ tool_op.status = "ValueError"
                 /\ q = tool_op.events_before
                 /\ client_tool_call[t] = tool_op.client_tool_call_before
            ELSE /\ tool_op.status = "ok"
                 /\ tool_op.op = "stream_widget" =>
                        /\ q # <<>>
                        /\ q[Len(q)].item.id = tool_op.function_call_id
                        /\ q[Len(q)].item.thread_id = ThreadOf(t)
                 /\ tool_op.op = "issue_client_tool_call" =>
                        /\ client_tool_call[t].type = "client_tool_call"
                        /\ client_tool_call[t].id = tool_op.function_call_id
                        /\ client_tool_call[t].thread_id = ThreadOf(t)

(***************************************************************************)
(* RunnerManager: the registry of runners and its shutdown                 *)
(***************************************************************************)
\* RunnerManager.add_runner, which the servers call when they are built
\* (facts/_server.py line 53): the runner is registered under its app name.
AddRunner ==
    /\ mpc = "open"
    /\ \E n \in RunnerNames \ _runners : _runners' = _runners \cup {n}
    /\ UNCHANGED <<cleanup_tasks, mpc, got>>
    /\ UNCHANGED NotR

\* RunnerManager.get_runner (lines 51-54).
get_runner(app_name) ==
    IF app_name \in _runners
    THEN [status |-> "ok", runner |-> app_name]
    ELSE [status |-> "AssertionError", runner |-> None]

GetRunner ==
    /\ \E n \in RunnerNames : got' = get_runner(n)
    /\ UNCHANGED <<_runners, cleanup_tasks, mpc>>
    /\ UNCHANGED NotR

\* close (line 57) and _close_runners up to its await (lines 22-29): one
\* task per registered runner; with no task there is nothing to wait for
\* and close goes on to clear the registry (line 58).
CloseBegins ==
    /\ mpc = "open"
    /\ cleanup_tasks' = [n \in _runners |-> "pending"]
    /\ IF _runners = {}
       THEN /\ mpc' = "closed"
            /\ _runners' = {}
       ELSE /\ mpc' = "waiting"
            /\ UNCHANGED _runners
    /\ UNCHANGED got
    /\ UNCHANGED NotR

\* A runner's close() returns or raises while close waits; it may also
\* never do either.
RunnerCloseEnds ==
    /\ mpc = "waiting"
    /\ \E n \in DOMAIN cleanup_tasks, how \in {"done", "failed"} :
         /\ cleanup_tasks[n] = "pending"
         /\ cleanup_tasks' = [cleanup_tasks EXCEPT ![n] = how]
    /\ UNCHANGED <<_runners, mpc, got>>
    /\ UNCHANGED NotR

\* asyncio.wait returns because every task has ended (ALL_COMPLETED):
\* nothing is pending, and close clears the registry (line 58).
WaitReturns ==
    /\ mpc = "waiting"
    /\ \A n \in DOMAIN cleanup_tasks : cleanup_tasks[n] # "pending"
    /\ _runners' = {}
    /\ mpc' = "closed"
    /\ UNCHANGED <<cleanup_tasks, got>>
    /\ UNCHANGED NotR

\* asyncio.wait returns because the 30 seconds are over: the pending tasks
\* are cancelled (lines 32-34) and close clears the registry (line 58).
WaitTimesOut_NoCancel ==
    /\ mpc = "waiting"
    /\ \E n \in DOMAIN cleanup_tasks : cleanup_tasks[n] = "pending"
    /\ _runners' = {}
    /\ mpc' = "closed"
    /\ UNCHANGED <<cleanup_tasks, got>>
    /\ UNCHANGED NotR

WaitTimesOut ==
    /\ mpc = "waiting"
    /\ \E n \in DOMAIN cleanup_tasks : cleanup_tasks[n] = "pending"
    /\ cleanup_tasks' =
           [n \in DOMAIN cleanup_tasks |->
               IF cleanup_tasks[n] = "pending" THEN "cancelled"
               ELSE cleanup_tasks[n]]
    /\ _runners' = {}
    /\ mpc' = "closed"
    /\ UNCHANGED got
    /\ UNCHANGED NotR

InitRunners == TIdle /\ PIdle /\ SIdle /\ BIdle /\ RIdle /\ MIdle /\ FIdle /\ CIdle /\ KIdle /\ WIdle

NextRunners ==
    \/ AddRunner
    \/ GetRunner
    \/ CloseBegins
    \/ RunnerCloseEnds
    \/ WaitReturns
    \/ WaitTimesOut

\* The event loop runs the timer of asyncio.wait: the wait returns, by
\* completion or by timeout.
SpecRunners ==
    /\ InitRunners
    /\ [][NextRunners]_vars
    /\ WF_vars(WaitReturns \/ WaitTimesOut)

(***************************************************************************)
(* Properties of the runner manager                                        *)
(***************************************************************************)
\* What holds while close waits and once it has returned.
CloseSafe ==
    /\ mpc = "waiting" => DOMAIN cleanup_tasks = _runners
    /\ mpc = "closed" =>
           /\ TEMP_APP_NAME \in DOMAIN cleanup_tasks
           /\ \A n \in DOMAIN cleanup_tasks : cleanup_tasks[n] # "pending"
           /\ _runners = {}
           /\ \A n \in RunnerNames : get_runner(n).status = "AssertionError"

\* C20: close starts a close task for every registered runner; a close
\* that waits always returns, whether or not the runners' close calls
\* end; once it has returned no task is pending (each has ended or was
\* cancelled), the registry is empty and get_runner finds no runner.
C20_CloseTerminatesAndClears ==
    /\ []CloseSafe
    /\ (mpc = "waiting") ~> (mpc = "closed")

C20_Witness ==
    /\ mpc = "closed"
    /\ Cardinality(DOMAIN cleanup_tasks) = 3
    /\ \E n \in DOMAIN cleanup_tasks : cleanup_tasks[n] = "cancelled"
    /\ \E n \in DOMAIN cleanup_tasks : cleanup_tasks[n] = "done"
    /\ got.status = "AssertionError"

\* The context of a store key.
ContextOf(key) == [app_name |-> key[1], user_id |-> key[2]]

C27_SaveKeepsItems ==
    (store_op.op = "save_thread" /\ store_op.key \in DOMAIN store_before) =>
        load_thread_items(store_sessions, store_op.key[3], ContextOf(store_op.key))
          = load_thread_items(store_before, store_op.key[3], ContextOf(store_op.key))

(***************************************************************************)
(* MetroMapChatKitServer: line selection and the next agent run            *)
(***************************************************************************)
MaxMetroOps == 4

Lines == {"L1", "L2"}

\* The text of the user's message; an empty one ends _adk_respond at once.
MetroTexts == {"", "hi", "go"}

MetroThreadId == "thr_1"

MetroContext == [app_name |-> "metro", user_id |-> "u1"]

MetroKey == StoreKey(MetroContext, MetroThreadId)

\* The session service as the metro server finds it: the session of the
\* thread, with the thread's metadata and its event log.
MetroStore ==
    (MetroKey :>
        [state |-> (_CHATKIT_THREAD_METADTA :>
                       _serialize_thread_metadata(
                           ThreadMetadata(MetroThreadId, metro_title))),
         events |-> metro_events])

HiddenContextItem(thread_id, content) ==
    [type |-> "hidden_context_item", thread_id |-> thread_id,
     content |-> content]

\* f"<LINE_SELECTED>{line_id}</LINE_SELECTED>".
LineSelected(line_id) == <<"<LINE_SELECTED>", line_id, "</LINE_SELECTED>">>

\* ADKStore.add_thread_item (lines 146-148): `pass`.
add_thread_item(store, thread_id, item, ctx) == store

\* ADKStore.issue_system_event_updates writes the items the store holds
\* back to the session; add_thread_item holds none back.
issue_system_event_updates(store, thread_id, ctx) == store

\* The line a line.select action chose and no agent run has followed yet.
PendingLine ==
    IF metro_op.op \in {"line.select", "respond_empty"}
    THEN metro_op.line
    ELSE None

\* action with type line.select (lines 97-112) and
\* _handle_line_select_action (lines 114-162).
LineSelectAction ==
    /\ nmetro < MaxMetroOps
    /\ \E line_id \in Lines :
         /\ metro_events' =
                issue_system_event_updates(
                    add_thread_item(MetroStore, MetroThreadId,
                        HiddenContextItem(MetroThreadId, LineSelected(line_id)),
                        MetroContext),
                    MetroThreadId, MetroContext)[MetroKey].events
         /\ metro_op' = [op |-> "line.select", line |-> line_id]
    /\ nmetro' = nmetro + 1
    /\ UNCHANGED <<metro_title, metro_message>>
    /\ UNCHANGED NotM

\* _adk_respond (lines 164-225) with the runner's run: the title is set
\* from the first message (lines 226-241), the hidden context items of the
\* thread are put before the message text, and the runner appends the
\* user's event and the model's answer to the session.
MetroRespond ==
    /\ nmetro < MaxMetroOps
    /\ \E message_text \in MetroTexts :
         IF message_text = ""
         THEN /\ metro_op' = [op |-> "respond_empty", line |-> PendingLine]
              /\ UNCHANGED <<metro_events, metro_title, metro_message>>
         ELSE LET titled == metro_title = None
                  store1 == IF titled
                            THEN save_thread(MetroStore,
                                     ThreadMetadata(MetroThreadId, message_text),
                                     MetroContext)
                            ELSE MetroStore
                  items == load_thread_items(store1, MetroThreadId,
                                             MetroContext).data
                  hidden == SelectSeq(items,
                                LAMBDA it : it.type = "hidden_context_item")
                  hidden_context_parts ==
                      [i \in 1..Len(hidden) |-> hidden[i].content]
                  message_with_context ==
                      [hidden |-> hidden_context_parts, text |-> message_text]
              IN  /\ metro_title' = IF titled THEN message_text ELSE metro_title
                  /\ metro_message' = message_with_context
                  /\ metro_events' = store1[MetroKey].events \o
                         << [author |-> "user", text |-> message_text,
                             hidden |-> hidden_context_parts,
                             state_delta |-> NoSessions],
                            [author |-> "model", text |-> "A",
                             state_delta |-> NoSessions] >>
                  /\ metro_op' = [op |-> "respond", line |-> PendingLine]
    /\ nmetro' = nmetro + 1
    /\ UNCHANGED NotM

InitMetro == TIdle /\ PIdle /\ SIdle /\ BIdle /\ RIdle /\ MIdle /\ FIdle /\ CIdle /\ KIdle /\ WIdle

NextMetro == LineSelectAction \/ MetroRespond

SpecMetro == InitMetro /\ [][NextMetro]_vars

\* C22: the agent run that follows a line.select action for line L sends
\* the runner a message that contains <LINE_SELECTED>L</LINE_SELECTED>.
C22_LineSelectedReachesAgent ==
    (metro_op.op = "respond" /\ metro_op.line # None) =>
        Occurs(LineSelected(metro_op.line), metro_message.hidden)

(***************************************************************************)
(* RefreshedSessionService.append_event                                    *)
(***************************************************************************)
MaxAppends == 4

\* Lines 15-22: the stored session is read and last_update_time, events
\* and state are copied onto the caller's object; the call then awaits
\* super().append_event.
Refresh ==
    /\ nappend < MaxAppends
    /\ \E c \in Callers :
         /\ fpc[c] = "idle"
         /\ caller_session' = [caller_session EXCEPT ![c] = db_session]
         /\ fpc' = [fpc EXCEPT ![c] = "refreshed"]
    /\ nappend' = nappend + 1
    /\ UNCHANGED <<db_session, append_op>>
    /\ UNCHANGED NotF

\* DatabaseSessionService.append_event (line 25): refuses a session whose
\* last_update_time is older than the stored one; otherwise the event is
\* stored and both times move on.
SuperAppend ==
    /\ \E c \in Callers :
         /\ fpc[c] = "refreshed"
         /\ fpc' = [fpc EXCEPT ![c] = "idle"]
         /\ IF db_session.last_update_time > caller_session[c].last_update_time
            THEN /\ append_op' = [op |-> "append", caller |-> c,
                                  status |-> "stale session",
                                  fresh |-> caller_session[c] = db_session]
                 /\ UNCHANGED <<db_session, caller_session>>
            ELSE /\ append_op' = [op |-> "append", caller |-> c,
                                  status |-> "ok",
                                  fresh |-> caller_session[c] = db_session]
                 /\ db_session' =
                        [last_update_time |-> db_session.last_update_time + 1,
                         events |-> Append(db_session.events, c)]
                 /\ caller_session' = [caller_session EXCEPT ![c] =
                        [last_update_time |-> db_session.last_update_time + 1,
                         events |-> Append(@.events, c)]]
    /\ UNCHANGED nappend
    /\ UNCHANGED NotF

InitRefresh == TIdle /\ PIdle /\ SIdle /\ BIdle /\ RIdle /\ MIdle /\ FIdle /\ CIdle /\ KIdle /\ WIdle

NextRefresh == Refresh \/ SuperAppend

SpecRefresh == InitRefresh /\ [][NextRefresh]_vars

\* C23: whenever the underlying append is performed, the session the
\* caller passes equals the stored session, and the append is not refused
\* as stale.
C23_NeverStale ==
    append_op.op = "append" =>
        /\ append_op.fresh
        /\ append_op.status = "ok"

(***************************************************************************)
(* CatState: care operations and naming                                    *)
(***************************************************************************)
STATUS_MIN == 0

STATUS_MAX == 10

COLOR_PATTERNS == {"black", "calico", "colorpoint", "tabby", "white"}

Max(a, b) == IF a >= b THEN a ELSE b

Min(a, b) == IF a <= b THEN a ELSE b

_clamp_NoCeiling(value) == Max(STATUS_MIN, value)

_clamp(value) == Max(STATUS_MIN, Min(STATUS_MAX, value))

\* CatState.feed with the default amount 3 (lines 32-39); deduct is the
\* outcome of choice([True, False]).
feed(s, deduct) ==
    [s EXCEPT !.energy = _clamp(s.energy + 3),
              !.happiness = _clamp(s.happiness + 1),
              !.cleanliness = IF deduct THEN _clamp(s.cleanliness - 1)
                              ELSE s.cleanliness]

\* CatState.play with the default boost 2 (lines 41-48).
play_NoEnergyCost(s, deduct) ==
    [s EXCEPT !.happiness = _clamp(s.happiness + 2),
              !.cleanliness = IF deduct THEN _clamp(s.cleanliness - 1)
                              ELSE s.cleanliness]

play(s, deduct) ==
    [s EXCEPT !.happiness = _clamp(s.happiness + 2),
              !.energy = _clamp(s.energy - 1),
              !.cleanliness = IF deduct THEN _clamp(s.cleanliness - 1)
                              ELSE s.cleanliness]

\* CatState.clean with the default boost 3 (lines 50-56).
clean(s, deduct) ==
    [s EXCEPT !.cleanliness = _clamp(s.cleanliness + 3),
              !.happiness = IF deduct THEN _clamp(s.happiness - 1)
                            ELSE s.happiness]

\* CatState.rename (lines 58-65): the name is set; a color pattern is
\* drawn only when the cat has none.
rename(s, value, pattern) ==
    [s EXCEPT !.name = value,
              !.color_pattern = IF s.color_pattern = None THEN pattern
                                ELSE s.color_pattern]

\* The outcomes of choice(COLOR_PATTERNS) in rename: it is drawn only when
\* the cat has no color pattern.
Choices(s) == IF s.color_pattern = None THEN COLOR_PATTERNS ELSE {s.color_pattern}

\* The names a caller may ask for, as typed.
RequestedNames == {"", "tom", "Kit", "unnamed cat", "Unnamed Cat"}

\* name.strip().title() (set_cat_name line 174).
Title(name) ==
    CASE name = "tom" -> "Tom"
      [] name = "unnamed cat" -> "Unnamed Cat"
      [] OTHER -> name

\* feed_cat, play_with_cat, clean_cat: one care operation on the state.
Feed ==
    /\ \E deduct \in BOOLEAN :
         /\ cat' = feed(cat, deduct)
         /\ cat_op' = [op |-> "feed", deducted |-> deduct, before |-> cat]
    /\ UNCHANGED NotC

Play ==
    /\ \E deduct \in BOOLEAN :
         /\ cat' = play(cat, deduct)
         /\ cat_op' = [op |-> "play", deducted |-> deduct, before |-> cat]
    /\ UNCHANGED NotC

Clean ==
    /\ \E deduct \in BOOLEAN :
         /\ cat' = clean(cat, deduct)
         /\ cat_op' = [op |-> "clean", deducted |-> deduct, before |-> cat]
    /\ UNCHANGED NotC

\* set_cat_name (_tools.py lines 145-194): refused when the stored name is
\* not "Unnamed Cat"; ValueError on an empty name; else rename.
SetCatName ==
    /\ \E name \in RequestedNames, pattern \in Choices(cat) :
         LET cleaned == Title(name)
         IN  IF cat.name # "Unnamed Cat"
             THEN /\ cat_op' = [op |-> "set_cat_name", requested |-> name,
                                status |-> "refused", before |-> cat]
                  /\ UNCHANGED cat
             ELSE IF cleaned = ""
             THEN /\ cat_op' = [op |-> "set_cat_name", requested |-> name,
                                status |-> "ValueError", before |-> cat]
                  /\ UNCHANGED cat
             ELSE /\ cat' = rename(cat, cleaned, pattern)
                  /\ cat_op' = [op |-> "set_cat_name", requested |-> name,
                                status |-> "ok", before |-> cat]
    /\ UNCHANGED NotC

\* _handle_select_name_action (_server.py lines 92-173): nothing without
\* a name or a sender; refused when the stored name is not "Unnamed Cat";
\* else rename with the name as given.
SelectNameAction ==
    /\ \E name \in RequestedNames, sender \in BOOLEAN, pattern \in Choices(cat) :
         IF name = "" \/ ~sender
         THEN /\ cat_op' = [op |-> "cats.select_name", requested |-> name,
                            status |-> "ignored", before |-> cat]
              /\ UNCHANGED cat
         ELSE IF cat.name # "Unnamed Cat"
         THEN /\ cat_op' = [op |-> "cats.select_name", requested |-> name,
                            status |-> "refused", before |-> cat]
              /\ UNCHANGED cat
         ELSE /\ cat' = rename(cat, name, pattern)
              /\ cat_op' = [op |-> "cats.select_name", requested |-> name,
                            status |-> "ok", before |-> cat]
    /\ UNCHANGED NotC

InitCat == TIdle /\ PIdle /\ SIdle /\ BIdle /\ RIdle /\ MIdle /\ FIdle /\ CIdle /\ KIdle /\ WIdle

NextCat == Feed \/ Play \/ Clean \/ SetCatName \/ SelectNameAction

SpecCat == InitCat /\ [][NextCat]_vars

(***************************************************************************)
(* Properties of the cat                                                   *)
(***************************************************************************)
AtMax(s) ==
    s.energy = STATUS_MAX /\ s.happiness = STATUS_MAX /\ s.cleanliness = STATUS_MAX

\* C24: every step that takes the cat into energy = happiness =
\* cleanliness = 10 is a feed or a clean in which the random deduction
\* was not applied (and that state is reached: see the witness).
C24_MaxOnlyWithoutDeduction ==
    [][ (AtMax(cat') /\ ~AtMax(cat)) =>
            /\ cat_op'.op \in {"feed", "clean"}
            /\ ~cat_op'.deducted ]_vars

C24_Witness ==
    /\ AtMax(cat)
    /\ cat_op.op \in {"feed", "clean"}
    /\ ~AtMax(cat_op.before)

\* C25: a naming operation on a cat that was named before (it has its
\* color pattern, which the first naming chose) changes neither the name
\* nor the color pattern.
C25_NoRename ==
    (cat_op.op \in {"set_cat_name", "cats.select_name"}
       /\ cat_op.before.color_pattern # None) =>
        /\ cat.name = cat_op.before.name
        /\ cat.color_pattern = cat_op.before.color_pattern

\* C28: energy, happiness and cleanliness stay within 0..10.
C28_StatsInRange ==
    /\ cat.energy \in STATUS_MIN..STATUS_MAX
    /\ cat.happiness \in STATUS_MIN..STATUS_MAX
    /\ cat.cleanliness \in STATUS_MIN..STATUS_MAX

C28_Witness ==
    /\ cat.energy = STATUS_MIN
    /\ cat.happiness = STATUS_MAX
    /\ cat.cleanliness = STATUS_MIN
    /\ cat_op.op = "play"
    /\ cat_op.deducted
    /\ cat_op.before.energy = STATUS_MIN
    /\ cat_op.before.cleanliness = STATUS_MIN

(***************************************************************************)
(* ADKStore.save_thread as its awaited session-service calls               *)
(***************************************************************************)
MaxSaves == 2

\* save_thread lines 76-80: the awaited get_session; the call remembers
\* whether it got a session.
SaveGetSession(c) ==
    /\ save_pc[c] = "idle"
    /\ nsave < MaxSaves
    /\ \E th \in ThreadMetadatas, ctx \in StoreContexts :
         save_arg' = [save_arg EXCEPT ![c] =
                         [thread |-> th, ctx |-> ctx,
                          session |-> StoreKey(ctx, th.id) \in DOMAIN save_sessions]]
    /\ save_pc' = [save_pc EXCEPT ![c] = "got"]
    /\ nsave' = nsave + 1
    /\ UNCHANGED <<save_sessions, create_calls, save_op>>
    /\ UNCHANGED NotK

\* save_thread lines 82-88: no session was got, create_session is called.
\* On an id that exists by now the session service either replaces the
\* session or refuses the call.
SaveCreateSession(c) ==
    /\ save_pc[c] = "got"
    /\ ~save_arg[c].session
    /\ LET key == StoreKey(save_arg[c].ctx, save_arg[c].thread.id)
           state == (_CHATKIT_THREAD_METADTA :>
                        _serialize_thread_metadata(save_arg[c].thread))
           calls == IF key \in DOMAIN create_calls THEN create_calls[key] ELSE 0
       IN  /\ create_calls' = (key :> calls + 1) @@ create_calls
           /\ \/ /\ save_sessions' = create_session(save_sessions, key, state)
                 /\ save_op' = [call |-> "create_session", caller |-> c,
                                key |-> key, status |-> "ok"]
              \/ /\ key \in DOMAIN save_sessions
                 /\ save_op' = [call |-> "create_session", caller |-> c,
                                key |-> key, status |-> "AlreadyExistsError"]
                 /\ UNCHANGED save_sessions
    /\ save_pc' = [save_pc EXCEPT ![c] = "idle"]
    /\ UNCHANGED <<save_arg, nsave>>
    /\ UNCHANGED NotK

\* save_thread lines 89-100: a session was got, the metadata goes into a
\* system event appended to it.
SaveAppendEvent(c) ==
    /\ save_pc[c] = "got"
    /\ save_arg[c].session
    /\ LET key == StoreKey(save_arg[c].ctx, save_arg[c].thread.id)
           state == (_CHATKIT_THREAD_METADTA :>
                        _serialize_thread_metadata(save_arg[c].thread))
       IN  /\ save_sessions' = append_event(save_sessions, key, SystemEvent(state))
           /\ save_op' = [call |-> "append_event", caller |-> c,
                          key |-> key, status |-> "ok"]
    /\ save_pc' = [save_pc EXCEPT ![c] = "idle"]
    /\ UNCHANGED <<save_arg, create_calls, nsave>>
    /\ UNCHANGED NotK

InitSave == TIdle /\ PIdle /\ SIdle /\ BIdle /\ RIdle /\ MIdle /\ FIdle /\ CIdle /\ KIdle /\ WIdle

NextSave ==
    \E c \in Savers :
        \/ SaveGetSession(c)
        \/ SaveCreateSession(c)
        \/ SaveAppendEvent(c)

SpecSave == InitSave /\ [][NextSave]_vars

\* C29: save_thread creates the underlying session at most once per
\* thread: create_session is invoked at most once for each session key,
\* whatever the interleaving of the save_thread calls.
C29_CreateOncePerThread ==
    \A key \in DOMAIN create_calls : create_calls[key] <= 1

(***************************************************************************)
(* ADKChatKitServer.respond                                                *)
(***************************************************************************)
MaxForwarded == 2

MaxTurns == 2

ForwardedEvents == {"e1", "e2"}

\* The event sequences _adk_respond may produce in one turn.
RespondInputs == UNION {[1..n -> ForwardedEvents] : n \in 0..MaxForwarded}

\* respond is called and first iterated (line 32): the turn's _adk_respond
\* is fixed, nothing is forwarded yet.
RespondStart ==
    /\ resp_pc \in {"idle", "done", "failed", "closed"}
    /\ nrespond < MaxTurns
    /\ \E events \in RespondInputs, raises \in BOOLEAN :
         /\ resp_in' = events
         /\ resp_raises' = raises
    /\ resp_pc' = "running"
    /\ resp_out' = <<>>
    /\ update_calls' = 0
    /\ nrespond' = nrespond + 1
    /\ UNCHANGED NotW

\* Lines 38-39: the next event of _adk_respond is yielded as it is;
\* respond is suspended at the yield with the event in the consumer's hands.
RespondYield ==
    /\ resp_pc = "running"
    /\ Len(resp_out) < Len(resp_in)
    /\ resp_out' = Append(resp_out, resp_in[Len(resp_out) + 1])
    /\ resp_pc' = "suspended"
    /\ UNCHANGED <<resp_in, resp_raises, update_calls, nrespond>>
    /\ UNCHANGED NotW

\* The consumer asks for the next event: respond resumes after the yield.
ConsumerNext ==
    /\ resp_pc = "suspended"
    /\ resp_pc' = "running"
    /\ UNCHANGED <<resp_in, resp_raises, resp_out, update_calls, nrespond>>
    /\ UNCHANGED NotW

\* The consumer closes the generator instead: GeneratorExit is raised at
\* the yield and the rest of respond does not run.
ConsumerClose ==
    /\ resp_pc = "suspended"
    /\ resp_pc' = "closed"
    /\ UNCHANGED <<resp_in, resp_raises, resp_out, update_calls, nrespond>>
    /\ UNCHANGED NotW

\* _adk_respond raises where its next event was asked for: the exception
\* leaves respond through the async for (line 38).
AdkRespondRaises_Finally ==
    /\ resp_pc = "running"
    /\ Len(resp_out) = Len(resp_in)
    /\ resp_raises
    /\ resp_pc' = "failed"
    /\ update_calls' = update_calls + 1
    /\ UNCHANGED <<resp_in, resp_raises, resp_out, nrespond>>
    /\ UNCHANGED NotW

AdkRespondRaises ==
    /\ resp_pc = "running"
    /\ Len(resp_out) = Len(resp_in)
    /\ resp_raises
    /\ resp_pc' = "failed"
    /\ UNCHANGED <<resp_in, resp_raises, resp_out, update_calls, nrespond>>
    /\ UNCHANGED NotW

\* Lines 41-43: _adk_respond is exhausted, the store's
\* issue_system_event_updates is awaited and respond ends.
RespondUpdates ==
    /\ resp_pc = "running"
    /\ Len(resp_out) = Len(resp_in)
    /\ ~resp_raises
    /\ update_calls' = update_calls + 1
    /\ resp_pc' = "done"
    /\ UNCHANGED <<resp_in, resp_raises, resp_out, nrespond>>
    /\ UNCHANGED NotW

InitRespond ==
    TIdle /\ PIdle /\ SIdle /\ BIdle /\ RIdle /\ MIdle /\ FIdle /\ CIdle /\ KIdle /\ WIdle

NextRespond ==
    \/ RespondStart
    \/ RespondYield
    \/ ConsumerNext
    \/ ConsumerClose
    \/ AdkRespondRaises
    \/ RespondUpdates

SpecRespond == InitRespond /\ [][NextRespond]_vars

\* C30: respond forwards the events of _adk_respond unchanged and in
\* order; issue_system_event_updates is called exactly once in a turn that
\* ends, after every event was consumed, and not at all before that, nor
\* when _adk_respond fails part-way (the events before the failure having
\* been forwarded), nor when the consumer closes the stream.
C30_ForwardThenUpdateOnce ==
    /\ Len(resp_out) <= Len(resp_in)
    /\ resp_out = SubSeq(resp_in, 1, Len(resp_out))
    /\ resp_pc = "done" => (update_calls = 1 /\ resp_out = resp_in)
    /\ resp_pc = "failed" => (update_calls = 0 /\ resp_out = resp_in)
    /\ resp_pc \in {"running", "suspended", "closed"} => update_calls = 0

C30_Witness ==
    /\ resp_pc = "done"
    /\ Len(resp_in) = MaxForwarded
    /\ resp_in[1] # resp_in[2]
    /\ resp_out = resp_in
    /\ update_calls = 1
    /\ nrespond = MaxTurns

====
